---- MODULE Spec2Model ----
(***************************************************************************)
(* Model of the argument tokenizer (splitArgs), of the ENTRYPOINT          *)
(* directive built on it (newEntrypointDirective) and of the command       *)
(* executor (ExecCommand) of makisu.                                       *)
(*                                                                         *)
(* A Go string is a sequence of one-character strings; the empty string is *)
(* the empty sequence.  A []string is a sequence of such sequences.        *)
(***************************************************************************)
EXTENDS Integers, Sequences, FiniteSets, TLC

\* ------------------------------------------------------------------ bounds
\* Longest input handed to splitArgs.
MaxLen == 5

\* ------------------------------------------------------------- characters
Space == " "
DoubleQuote == "\""
Backslash == "\\"
Amp == "&"
Pipe == "|"
Semi == ";"
Letter == "a"

\* The input alphabet of the tokenizer runs: one ordinary character, one
\* whitespace character and every character the automaton tests for.
Alphabet == {Letter, Space, DoubleQuote, Backslash, Amp, Pipe, Semi}

\* unicode.IsSpace, on the alphabet above.
IsSpace(r) == r = Space

\* r == '&' || r == '|' || r == ';'
IsShellChar(r) == r \in {Amp, Pipe, Semi}

\* ------------------------------------------------------------ the states
StateSpace == "splitArgsStateSpace"
StateArg == "splitArgsStateArg"
StateQuote == "splitArgsStateQuote"
StateEndQuote == "splitArgsStateEndQuote"
StateShellCharacters == "splitArgsStateShellCharacters"
\* The nil state a failing nextRune returns.
StateNil == "nil"

\* ------------------------------------------------------------ the errors
NoError == "nil"
ErrMissingWhitespace == "missing whitespace after argument"
ErrNotInShell == "not in a shell"
ErrMissingQuote == "unexpected termination: missing '\"' after argument"

\* The result of a nextRune: the next state, the shared base after the
\* call's assignments, and the error.
Step(st, b) == [state |-> st, base |-> b, err |-> NoError]
Fail(b, e) == [state |-> StateNil, base |-> b, err |-> e]

\* splitArgsBase, as splitArgs creates it.
NewBase(fs) == [args |-> <<>>, currArg |-> <<>>, escaped |-> FALSE, forShell |-> fs]

\* if len(s.currArg) > 0 { s.args = append(s.args, s.currArg) }
PushNonEmpty(b) == IF Len(b.currArg) > 0 THEN Append(b.args, b.currArg) ELSE b.args

\* --------------------------------------------------- splitArgsStateSpace
splitArgsStateSpaceNextRune(b, r) ==
    IF IsSpace(r) THEN Step(StateSpace, b)
    ELSE IF r = DoubleQuote THEN
        Step(StateQuote,
             [b EXCEPT !.currArg = IF b.forShell THEN @ \o <<DoubleQuote>> ELSE @])
    ELSE IF r = Backslash THEN
        Step(StateArg, [b EXCEPT !.escaped = TRUE])
    ELSE IF b.forShell /\ IsShellChar(r) THEN
        Step(StateShellCharacters,
             [b EXCEPT !.args = PushNonEmpty(b), !.currArg = <<r>>])
    ELSE
        Step(StateArg, [b EXCEPT !.currArg = @ \o <<r>>])

splitArgsStateSpaceEndOfInput(b) == [args |-> b.args, nil |-> FALSE, err |-> NoError]

\* ----------------------------------------------------- splitArgsStateArg
\* splitArgsStateArg.nextRune opening a quoted region on an unescaped '"'.
splitArgsStateArgNextRuneOpensQuote(b, r) ==
    IF b.escaped THEN
        Step(StateArg,
             [b EXCEPT !.currArg =
                           (IF ~IsSpace(r) /\ r # DoubleQuote
                            THEN @ \o <<Backslash>> ELSE @) \o <<r>>,
                       !.escaped = FALSE])
    ELSE IF IsSpace(r) THEN
        Step(StateSpace,
             [b EXCEPT !.args = Append(@, b.currArg), !.currArg = <<>>])
    ELSE IF r = DoubleQuote THEN
        Step(StateQuote, b)
    ELSE IF b.forShell /\ IsShellChar(r) THEN
        Step(StateShellCharacters,
             [b EXCEPT !.args = PushNonEmpty(b), !.currArg = <<r>>])
    ELSE
        Step(StateArg, [b EXCEPT !.currArg = @ \o <<r>>])

\* splitArgsStateArg.nextRune without  s.escaped = false.
splitArgsStateArgNextRuneKeepsEscape(b, r) ==
    IF b.escaped THEN
        Step(StateArg,
             [b EXCEPT !.currArg =
                           (IF ~IsSpace(r) /\ r # DoubleQuote
                            THEN @ \o <<Backslash>> ELSE @) \o <<r>>])
    ELSE IF IsSpace(r) THEN
        Step(StateSpace,
             [b EXCEPT !.args = Append(@, b.currArg), !.currArg = <<>>])
    ELSE IF b.forShell /\ IsShellChar(r) THEN
        Step(StateShellCharacters,
             [b EXCEPT !.args = PushNonEmpty(b), !.currArg = <<r>>])
    ELSE
        Step(StateArg, [b EXCEPT !.currArg = @ \o <<r>>])

splitArgsStateArgNextRune(b, r) ==
    IF b.escaped THEN
        Step(StateArg,
             [b EXCEPT !.currArg =
                           (IF ~IsSpace(r) /\ r # DoubleQuote
                            THEN @ \o <<Backslash>> ELSE @) \o <<r>>,
                       !.escaped = FALSE])
    ELSE IF IsSpace(r) THEN
        Step(StateSpace,
             [b EXCEPT !.args = Append(@, b.currArg), !.currArg = <<>>])
    ELSE IF b.forShell /\ IsShellChar(r) THEN
        Step(StateShellCharacters,
             [b EXCEPT !.args = PushNonEmpty(b), !.currArg = <<r>>])
    ELSE
        Step(StateArg, [b EXCEPT !.currArg = @ \o <<r>>])

\* splitArgsStateArg.endOfInput returning the arguments without currArg.
splitArgsStateArgEndOfInputDrops(b) == [args |-> b.args, nil |-> FALSE, err |-> NoError]

splitArgsStateArgEndOfInput(b) ==
    [args |-> Append(b.args, b.currArg), nil |-> FALSE, err |-> NoError]

\* --------------------------------------------------- splitArgsStateQuote
splitArgsStateQuoteNextRune(b, r) ==
    IF b.escaped THEN
        Step(StateQuote,
             [b EXCEPT !.currArg =
                           (IF r # DoubleQuote \/ b.forShell
                            THEN @ \o <<Backslash>> ELSE @) \o <<r>>,
                       !.escaped = FALSE])
    ELSE IF r = Backslash THEN
        Step(StateQuote, [b EXCEPT !.escaped = TRUE])
    ELSE IF r = DoubleQuote THEN
        Step(StateEndQuote,
             [b EXCEPT !.args = Append(@, IF b.forShell
                                          THEN b.currArg \o <<DoubleQuote>>
                                          ELSE b.currArg),
                       !.currArg = <<>>])
    ELSE
        Step(StateQuote, [b EXCEPT !.currArg = @ \o <<r>>])

\* splitArgsStateQuote.endOfInput returning the arguments as
\* splitArgsStateArg.endOfInput does.
splitArgsStateQuoteEndOfInputFlushes(b) ==
    [args |-> Append(b.args, b.currArg), nil |-> FALSE, err |-> NoError]

splitArgsStateQuoteEndOfInput(b) == [args |-> <<>>, nil |-> TRUE, err |-> ErrMissingQuote]

\* ------------------------------------------------ splitArgsStateEndQuote
\* Go parses  s.forShell && r == '&' || r == '|' || r == ';'  as
\* (s.forShell && r == '&') || r == '|' || r == ';'.
EndQuoteAcceptsShellChar(b, r) == (b.forShell /\ r = Amp) \/ r = Pipe \/ r = Semi

\* splitArgsStateEndQuote.nextRune accepting a '"' that opens the next
\* quoted region.
splitArgsStateEndQuoteNextRuneReopens(b, r) ==
    IF ~IsSpace(r) THEN
        IF EndQuoteAcceptsShellChar(b, r)
        THEN Step(StateShellCharacters, [b EXCEPT !.currArg = <<r>>])
        ELSE IF r = DoubleQuote THEN Step(StateQuote, b)
        ELSE Fail(b, ErrMissingWhitespace)
    ELSE Step(StateSpace, b)

splitArgsStateEndQuoteNextRune(b, r) ==
    IF ~IsSpace(r) THEN
        IF EndQuoteAcceptsShellChar(b, r)
        THEN Step(StateShellCharacters, [b EXCEPT !.currArg = <<r>>])
        ELSE Fail(b, ErrMissingWhitespace)
    ELSE Step(StateSpace, b)

splitArgsStateEndQuoteEndOfInput(b) == [args |-> b.args, nil |-> FALSE, err |-> NoError]

\* ----------------------------------------- splitArgsStateShellCharacters
\* splitArgsStateShellCharacters.nextRune making a token of every
\* operator character.
splitArgsStateShellCharactersNextRuneSplitsRun(b, r) ==
    IF ~b.forShell THEN Fail(b, ErrNotInShell)
    ELSE IF ~IsShellChar(r) THEN
        IF IsSpace(r)
        THEN Step(StateSpace, [b EXCEPT !.args = PushNonEmpty(b), !.currArg = <<>>])
        ELSE Step(StateSpace, [b EXCEPT !.args = PushNonEmpty(b), !.currArg = <<r>>])
    ELSE Step(StateShellCharacters,
              [b EXCEPT !.args = PushNonEmpty(b), !.currArg = <<r>>])

splitArgsStateShellCharactersNextRune(b, r) ==
    IF ~b.forShell THEN Fail(b, ErrNotInShell)
    ELSE IF ~IsShellChar(r) THEN
        IF IsSpace(r)
        THEN Step(StateSpace, [b EXCEPT !.args = PushNonEmpty(b), !.currArg = <<>>])
        ELSE Step(StateSpace, [b EXCEPT !.args = PushNonEmpty(b), !.currArg = <<r>>])
    ELSE Step(StateShellCharacters, [b EXCEPT !.currArg = @ \o <<r>>])

splitArgsStateShellCharactersEndOfInput(b) ==
    [args |-> b.args, nil |-> FALSE, err |-> NoError]

\* ------------------------------------------- the splitArgsState interface
nextRune(st, b, r) ==
    CASE st = StateSpace -> splitArgsStateSpaceNextRune(b, r)
      [] st = StateArg -> splitArgsStateArgNextRune(b, r)
      [] st = StateQuote -> splitArgsStateQuoteNextRune(b, r)
      [] st = StateEndQuote -> splitArgsStateEndQuoteNextRune(b, r)
      [] st = StateShellCharacters -> splitArgsStateShellCharactersNextRune(b, r)

endOfInput(st, b) ==
    CASE st = StateSpace -> splitArgsStateSpaceEndOfInput(b)
      [] st = StateArg -> splitArgsStateArgEndOfInput(b)
      [] st = StateQuote -> splitArgsStateQuoteEndOfInput(b)
      [] st = StateEndQuote -> splitArgsStateEndQuoteEndOfInput(b)
      [] st = StateShellCharacters -> splitArgsStateShellCharactersEndOfInput(b)

\* splitArgs(in, fs) as a function of its arguments: the loop from the
\* k-th character on, in state st with base b, and the whole call.
RECURSIVE splitArgsLoop(_, _, _, _)
splitArgsLoop(st, b, in, k) ==
    IF k > Len(in) THEN endOfInput(st, b)
    ELSE LET n == nextRune(st, b, in[k]) IN
        IF n.err # NoError
        THEN [args |-> <<>>, nil |-> TRUE, err |-> n.err]
        ELSE splitArgsLoop(n.state, n.base, in, k + 1)

splitArgs(in, fs) == splitArgsLoop(StateSpace, NewBase(fs), in, 1)

\* ------------------------------------------------------------- the state
VARIABLES
    input,      \* splitArgs: the input string
    i,          \* splitArgs: the loop index (0-based; input[i+1] is next)
    state,      \* splitArgs: the current splitArgsState
    sbase,      \* splitArgs: the splitArgsBase every state shares
    pc,         \* splitArgs: "loop" while running, "returned" after return
    ret         \* splitArgs: the returned ([]string, error)

tokVars == <<input, i, state, sbase, pc, ret>>

NoReturn == [args |-> <<>>, nil |-> TRUE, err |-> NoError]

\* Every string over the characters A of at most n characters.
StringsOver(A, n) == UNION {[1..k -> A] : k \in 0..n}

\* The tokenizer variables while no splitArgs call is in progress.
splitArgsIdle ==
    /\ input = <<>>
    /\ i = 0
    /\ state = StateSpace
    /\ sbase = NewBase(FALSE)
    /\ pc = "idle"
    /\ ret = NoReturn

\* splitArgs(in, fs) up to its loop, as the initial state of a run.
splitArgsInit(in, fs) ==
    /\ input = in
    /\ i = 0
    /\ state = StateSpace
    /\ sbase = NewBase(fs)
    /\ pc = "loop"
    /\ ret = NoReturn

\* splitArgs(in, fs) up to its loop, as a call made by a step.
splitArgsCall(in, fs) ==
    /\ input' = in
    /\ i' = 0
    /\ state' = StateSpace
    /\ sbase' = NewBase(fs)
    /\ pc' = "loop"
    /\ ret' = NoReturn

\* One iteration of the loop of splitArgs.
NextRune ==
    /\ pc = "loop"
    /\ i < Len(input)
    /\ LET n == nextRune(state, sbase, input[i + 1]) IN
        /\ state' = n.state
        /\ sbase' = n.base
        /\ IF n.err # NoError
           THEN /\ pc' = "returned"
                /\ ret' = [args |-> <<>>, nil |-> TRUE, err |-> n.err]
                /\ i' = i
           ELSE /\ pc' = pc
                /\ ret' = ret
                /\ i' = i + 1
    /\ UNCHANGED input

\* return state.endOfInput()
EndOfInput ==
    /\ pc = "loop"
    /\ i = Len(input)
    /\ ret' = endOfInput(state, sbase)
    /\ pc' = "returned"
    /\ UNCHANGED <<input, i, state, sbase>>

\* ============================================== newEntrypointDirective
\* Longest base.Args handed to newEntrypointDirective.
MaxArgsLen == 5

LBracket == "["
RBracket == "]"
Comma == ","

\* The characters of base.Args in the directive runs.
ArgsAlphabet == {Letter, Space, DoubleQuote, LBracket, RBracket, Comma}

BinSh == <<"/", "b", "i", "n", "/", "s", "h">>
DashC == <<"-", "c">>

\* strings.Join(a, sep)
RECURSIVE Join(_, _)
Join(a, sep) ==
    IF Len(a) = 0 THEN <<>>
    ELSE IF Len(a) = 1 THEN a[1]
    ELSE a[1] \o sep \o Join(Tail(a), sep)

\* ---- the JSON-array primitive: a JSON array whose elements are strings
\* The first index >= k of s that holds no whitespace (Len(s)+1 if none).
RECURSIVE SkipWS(_, _)
SkipWS(s, k) == IF k <= Len(s) /\ IsSpace(s[k]) THEN SkipWS(s, k + 1) ELSE k

JSONFail == [ok |-> FALSE, val |-> <<>>, next |-> 0]

\* The body of a JSON string from index k on, up to its closing quote.
RECURSIVE JSONStringBody(_, _, _)
JSONStringBody(s, k, acc) ==
    IF k > Len(s) THEN JSONFail
    ELSE IF s[k] = DoubleQuote THEN [ok |-> TRUE, val |-> acc, next |-> k + 1]
    ELSE IF s[k] = Backslash THEN
        IF k + 1 <= Len(s) /\ s[k + 1] \in {DoubleQuote, Backslash}
        THEN JSONStringBody(s, k + 2, Append(acc, s[k + 1]))
        ELSE JSONFail
    ELSE JSONStringBody(s, k + 1, Append(acc, s[k]))

\* The elements of the array from index k on (k is at an element), up to
\* the closing bracket.
RECURSIVE JSONElements(_, _, _)
JSONElements(s, k, acc) ==
    IF k > Len(s) \/ s[k] # DoubleQuote THEN JSONFail
    ELSE LET e == JSONStringBody(s, k + 1, <<>>) IN
        IF ~e.ok THEN JSONFail
        ELSE LET j == SkipWS(s, e.next) IN
            IF j > Len(s) THEN JSONFail
            ELSE IF s[j] = Comma THEN JSONElements(s, SkipWS(s, j + 1), Append(acc, e.val))
            ELSE IF s[j] = RBracket
                 THEN [ok |-> TRUE, val |-> Append(acc, e.val), next |-> j + 1]
            ELSE JSONFail

\* parseJSONArray(raw): (array, true) when raw is a JSON array of strings.
parseJSONArray(raw) ==
    LET k == SkipWS(raw, 1) IN
    IF k > Len(raw) \/ raw[k] # LBracket THEN [ok |-> FALSE, val |-> <<>>]
    ELSE LET j == SkipWS(raw, k + 1)
             a == IF j <= Len(raw) /\ raw[j] = RBracket
                  THEN [ok |-> TRUE, val |-> <<>>, next |-> j + 1]
                  ELSE JSONElements(raw, j, <<>>)
         IN IF a.ok /\ SkipWS(raw, a.next) > Len(raw)
            THEN [ok |-> TRUE, val |-> a.val]
            ELSE [ok |-> FALSE, val |-> <<>>]

\* base.err(err): the directive's error wrapping a cause.
BaseErr(e) == <<"directive error", e>>
ErrReplaceVars == <<"replace variables", NoError>>
NoDirectiveErr == <<"nil", NoError>>

\* The tokens appended one by one instead of joined.
ShellFormEntrypointUnjoined(a) == <<BinSh, DashC>> \o a

\* cmd := append([]string{"/bin/sh", "-c"}, strings.Join(args, " "))
ShellFormEntrypoint(a) == <<BinSh, DashC, Join(a, <<Space>>)>>

VARIABLES
    Args,       \* newEntrypointDirective: base.Args
    epc,        \* newEntrypointDirective: where the call is
    ok,         \* newEntrypointDirective: the ok of parseJSONArray
    directive,  \* newEntrypointDirective: the returned Directive
    derr        \* newEntrypointDirective: the returned error

entryVars == <<Args, epc, ok, directive, derr>>

NilDirective == [nil |-> TRUE, Entrypoint |-> <<>>]
EntrypointDirective(e) == [nil |-> FALSE, Entrypoint |-> e]

\* The directive variables while no newEntrypointDirective call is made.
EntryIdle ==
    /\ Args = <<>>
    /\ epc = "idle"
    /\ ok = "unset"
    /\ directive = NilDirective
    /\ derr = NoDirectiveErr

EntryInit(a) ==
    /\ Args = a
    /\ epc = "replaceVars"
    /\ ok = "unset"
    /\ directive = NilDirective
    /\ derr = NoDirectiveErr

\* if err := base.replaceVarsCurrStage(state); err != nil { return nil, err }
\* Args holds the arguments as they are after a successful replacement.
EntryReplaceVars ==
    /\ epc = "replaceVars"
    /\ \/ /\ epc' = "parseJSON"
          /\ UNCHANGED <<directive, derr>>
       \/ /\ epc' = "done"
          /\ directive' = NilDirective
          /\ derr' = ErrReplaceVars
    /\ UNCHANGED <<Args, ok, tokVars>>

\* if entrypoint, ok := parseJSONArray(base.Args); ok { return ... }
\* and otherwise the call splitArgs(base.Args, true).
EntryParseJSON ==
    /\ epc = "parseJSON"
    /\ LET p == parseJSONArray(Args) IN
        IF p.ok
        THEN /\ ok' = "true"
             /\ directive' = EntrypointDirective(p.val)
             /\ epc' = "done"
             /\ UNCHANGED tokVars
        ELSE /\ ok' = "false"
             /\ epc' = "splitArgs"
             /\ splitArgsCall(Args, TRUE)
             /\ UNCHANGED directive
    /\ UNCHANGED <<Args, derr>>

\* The shell form built whether or not splitArgs failed.
EntryShellFormDropsError ==
    /\ epc = "splitArgs"
    /\ pc = "returned"
    /\ directive' = EntrypointDirective(ShellFormEntrypoint(ret.args))
    /\ derr' = NoDirectiveErr
    /\ epc' = "done"
    /\ UNCHANGED <<Args, ok, tokVars>>

\* The rest of newEntrypointDirective, once splitArgs has returned.
EntryShellForm ==
    /\ epc = "splitArgs"
    /\ pc = "returned"
    /\ IF ret.err # NoError
       THEN /\ directive' = NilDirective
            /\ derr' = BaseErr(ret.err)
       ELSE /\ directive' = EntrypointDirective(ShellFormEntrypoint(ret.args))
            /\ derr' = NoDirectiveErr
    /\ epc' = "done"
    /\ UNCHANGED <<Args, ok, tokVars>>

\* ======================================================== ExecCommand
\* Most writes the child makes to one of its streams.
MaxChunks == 2
\* Bytes the operating-system pipe between the child and the copying
\* goroutine of os/exec holds before the child's write blocks.
OsPipeCap == 2

Streams == {"out", "err"}
\* What one write of the child holds (one byte stands for its bytes).
Chunks == {"x", "y"}
\* The exit codes of the child.
ExitCodes == {0, 7}

VARIABLES
    xpc,        \* ExecCommand: where the main flow is
    xret,       \* ExecCommand: the returned error
    drain,      \* per stream: where the goroutine running readerToStream is
    buffer,     \* per stream: buffer[:n] of readerToStream after a Read
    sink,       \* per stream: the calls made to outStream / errStream
    child,      \* the child process: "none", "running", "exited"
    childData,  \* per stream: what the child has still to write
    written,    \* per stream: the bytes the child has written
    exitCode,   \* the exit status of the child
    osPipe,     \* per stream: the bytes in the pipe os/exec gave the child
    copier,     \* per stream: where os/exec's io.Copy(writer, pipe) is
    pending     \* per stream: the bytes a blocked io.Pipe Write holds

execVars == <<xpc, xret, drain, buffer, sink, child, childData, written,
              exitCode, osPipe, copier, pending>>

\* No bytes: n == 0.
NoChunk == <<>>

\* The error ExecCommand returns: nil, fmt.Errorf("cmd user resolve: ..."),
\* fmt.Errorf("cmd start: ..."), fmt.Errorf("cmd wait: ..."), or the
\* *exec.ExitError with its exit status.
ExecErr(kind, code) == [err |-> kind, code |-> code]
NotReturned == ExecErr("unset", 0)
NilErr == ExecErr("nil", 0)
ErrUserResolve == ExecErr("cmd user resolve", 0)
ErrCmdStart == ExecErr("cmd start", 0)
ErrCmdWait == ExecErr("cmd wait", 0)
ExitError(c) == ExecErr("exit error", c)

\* stream("%s", buffer[:n])
DataCall(bytes) == [kind |-> "data", bytes |-> bytes, code |-> 0]

\* errStream("Command exited with %d\n", exitCode)
ExitedLine(c) == [kind |-> "Command exited with", bytes |-> <<>>, code |-> c]

\* outStream("Failed to stream stdout from command: %s\n", err) and
\* errStream("Failed to stream stderr from command: %s\n", err)
FailedLine == [kind |-> "Failed to stream", bytes |-> <<>>, code |-> 0]

\* The call sink[s](format, args): one entry of the sink's log.
StreamCall(s, what) == Append(sink[s], what)

\* The executor variables while no ExecCommand call is made.
ExecIdle ==
    /\ xpc = "idle"
    /\ xret = NotReturned
    /\ drain = [s \in Streams |-> "unspawned"]
    /\ buffer = [s \in Streams |-> NoChunk]
    /\ sink = [s \in Streams |-> <<>>]
    /\ child = "none"
    /\ childData = [s \in Streams |-> <<>>]
    /\ written = [s \in Streams |-> <<>>]
    /\ exitCode = 0
    /\ osPipe = [s \in Streams |-> <<>>]
    /\ copier = [s \in Streams |-> "none"]
    /\ pending = [s \in Streams |-> NoChunk]

\* ExecCommand(outStream, errStream, workingDir, user, cmdName, cmdArgs...)
\* entered with a command that would write data and exit with code.
ExecInit(data, code) ==
    /\ xpc = "resolve"
    /\ xret = NotReturned
    /\ drain = [s \in Streams |-> "unspawned"]
    /\ buffer = [s \in Streams |-> NoChunk]
    /\ sink = [s \in Streams |-> <<>>]
    /\ child = "none"
    /\ childData = data
    /\ written = [s \in Streams |-> <<>>]
    /\ exitCode = code
    /\ osPipe = [s \in Streams |-> <<>>]
    /\ copier = [s \in Streams |-> "none"]
    /\ pending = [s \in Streams |-> NoChunk]

\* cmd.Start() placed between the two go statements.
NextStatementStartBeforeGoErr(l) ==
    CASE l = "resolve" -> "goOut"
      [] l = "goOut" -> "start"
      [] l = "start" -> "goErr"
      [] l = "goErr" -> "wait"

\* The statement the main flow reaches after statement l, when l does not
\* return: the order of the statements of ExecCommand.
NextStatement(l) ==
    CASE l = "resolve" -> "goOut"
      [] l = "goOut" -> "goErr"
      [] l = "goErr" -> "start"
      [] l = "start" -> "wait"

\* if user != "" { uid, gid, err := utils.ResolveChown(user) ... }, then
\* the two io.Pipe() and cmd.Stdout, cmd.Stderr = outWriter, errWriter.
ExecResolveUser ==
    /\ xpc = "resolve"
    /\ \/ /\ xpc' = NextStatement(xpc)
          /\ UNCHANGED xret
       \/ /\ xpc' = "done"
          /\ xret' = ErrUserResolve
    /\ UNCHANGED <<drain, buffer, sink, child, childData, written, exitCode,
                   osPipe, copier, pending>>

\* go func() { readerToStream(outReader, outStream) ... }()
ExecGoOut ==
    /\ xpc = "goOut"
    /\ drain' = [drain EXCEPT !["out"] = "read"]
    /\ xpc' = NextStatement(xpc)
    /\ UNCHANGED <<xret, buffer, sink, child, childData, written, exitCode,
                   osPipe, copier, pending>>

\* go func() { readerToStream(errReader, errStream) ... }()
ExecGoErr ==
    /\ xpc = "goErr"
    /\ drain' = [drain EXCEPT !["err"] = "read"]
    /\ xpc' = NextStatement(xpc)
    /\ UNCHANGED <<xret, buffer, sink, child, childData, written, exitCode,
                   osPipe, copier, pending>>

\* cmd.Start() whose failure is also written to errStream.
ExecStartReportsFailure ==
    /\ xpc = "start"
    /\ \/ /\ xpc' = "done"
          /\ xret' = ErrCmdStart
          /\ sink' = [sink EXCEPT !["err"] = StreamCall("err", FailedLine)]
          /\ UNCHANGED <<child, copier>>
       \/ /\ xpc' = NextStatement(xpc)
          /\ child' = "running"
          /\ copier' = [s \in Streams |-> "copy"]
          /\ UNCHANGED <<xret, sink>>
    /\ UNCHANGED <<drain, buffer, childData, written, exitCode, osPipe, pending>>

\* cmd.Start(): on failure nothing runs; on success the child runs and
\* os/exec copies each of its pipes into cmd.Stdout / cmd.Stderr.
ExecStart ==
    /\ xpc = "start"
    /\ \/ /\ xpc' = "done"
          /\ xret' = ErrCmdStart
          /\ UNCHANGED <<child, copier>>
       \/ /\ xpc' = NextStatement(xpc)
          /\ child' = "running"
          /\ copier' = [s \in Streams |-> "copy"]
          /\ UNCHANGED xret
    /\ UNCHANGED <<drain, buffer, sink, childData, written, exitCode, osPipe,
                   pending>>

\* cmd.Wait() returns once the child has exited and both copies ended.
WaitReturns == child = "exited" /\ \A s \in Streams : copier[s] = "done"

\* A drain task has returned an error from readerToStream.
StreamFailed == \E s \in Streams : drain[s] \in {"failed", "returned"}

\* cmd.Wait() whose result gives way to the read error of a drain task.
ExecWaitReturnsStreamError ==
    /\ xpc = "wait"
    /\ WaitReturns
    /\ \/ /\ exitCode = 0
          /\ xret' = IF StreamFailed THEN ExecErr("stream", 0) ELSE NilErr
          /\ xpc' = "done"
       \/ /\ exitCode # 0
          /\ xpc' = "exitLine"
          /\ UNCHANGED xret
       \/ /\ xret' = ErrCmdWait
          /\ xpc' = "done"
    /\ UNCHANGED <<drain, buffer, sink, child, childData, written, exitCode,
                   osPipe, copier, pending>>

\* cmd.Wait() and the branches on its error: nil, an *exec.ExitError, or
\* another error of the wait itself.
ExecWait ==
    /\ xpc = "wait"
    /\ WaitReturns
    /\ \/ /\ exitCode = 0
          /\ xret' = NilErr
          /\ xpc' = "done"
       \/ /\ exitCode # 0
          /\ xpc' = "exitLine"
          /\ UNCHANGED xret
       \/ /\ xret' = ErrCmdWait
          /\ xpc' = "done"
    /\ UNCHANGED <<drain, buffer, sink, child, childData, written, exitCode,
                   osPipe, copier, pending>>

\* return exitError without the line on errStream.
ExecExitLineSilent ==
    /\ xpc = "exitLine"
    /\ xret' = ExitError(exitCode)
    /\ xpc' = "done"
    /\ UNCHANGED <<drain, buffer, sink, child, childData, written, exitCode,
                   osPipe, copier, pending>>

\* errStream("Command exited with %d\n", exitCode); return exitError
ExecExitLine ==
    /\ xpc = "exitLine"
    /\ sink' = [sink EXCEPT !["err"] = StreamCall("err", ExitedLine(exitCode))]
    /\ xret' = ExitError(exitCode)
    /\ xpc' = "done"
    /\ UNCHANGED <<drain, buffer, child, childData, written, exitCode, osPipe,
                   copier, pending>>

\* The child makes its next write to the pipe of stream s.
ChildWrite(s) ==
    /\ child = "running"
    /\ childData[s] # <<>>
    /\ Len(osPipe[s]) < OsPipeCap
    /\ osPipe' = [osPipe EXCEPT ![s] = Append(@, Head(childData[s]))]
    /\ written' = [written EXCEPT ![s] = Append(@, Head(childData[s]))]
    /\ childData' = [childData EXCEPT ![s] = Tail(@)]
    /\ UNCHANGED <<xpc, xret, drain, buffer, sink, child, exitCode, copier,
                   pending>>

\* The child exits, having written everything.
ChildExit ==
    /\ child = "running"
    /\ \A s \in Streams : childData[s] = <<>>
    /\ child' = "exited"
    /\ UNCHANGED <<xpc, xret, drain, buffer, sink, childData, written,
                   exitCode, osPipe, copier, pending>>

\* io.Copy of os/exec reads what the child's pipe holds (several writes
\* of the child at once, when they are there) and calls Write on the
\* io.Pipe writer, which blocks until it is read.
CopierRead(s) ==
    /\ copier[s] = "copy"
    /\ osPipe[s] # <<>>
    /\ pending' = [pending EXCEPT ![s] = osPipe[s]]
    /\ osPipe' = [osPipe EXCEPT ![s] = <<>>]
    /\ copier' = [copier EXCEPT ![s] = "write"]
    /\ UNCHANGED <<xpc, xret, drain, buffer, sink, child, childData, written,
                   exitCode>>

\* io.Copy of os/exec reaches the end of the child's pipe.  Nothing closes
\* outWriter / errWriter then, or at any other point.
CopierEOF(s) ==
    /\ copier[s] = "copy"
    /\ osPipe[s] = <<>>
    /\ child = "exited"
    /\ copier' = [copier EXCEPT ![s] = "done"]
    /\ UNCHANGED <<xpc, xret, drain, buffer, sink, child, childData, written,
                   exitCode, osPipe, pending>>

\* n, err := reader.Read(buffer) in readerToStream: the io.Pipe hands the
\* blocked Write's bytes to the Read, and both return.
DrainRead(s) ==
    /\ drain[s] = "read"
    /\ copier[s] = "write"
    /\ buffer' = [buffer EXCEPT ![s] = pending[s]]
    /\ pending' = [pending EXCEPT ![s] = NoChunk]
    /\ copier' = [copier EXCEPT ![s] = "copy"]
    /\ drain' = [drain EXCEPT ![s] = "stream"]
    /\ UNCHANGED <<xpc, xret, sink, child, childData, written, exitCode,
                   osPipe>>

\* The bytes read are passed to the sink of the other stream.
DrainStreamCrossed(s) ==
    /\ drain[s] = "stream"
    /\ \E o \in Streams \ {s} :
           sink' = [sink EXCEPT ![o] = StreamCall(o, DataCall(buffer[s]))]
    /\ buffer' = [buffer EXCEPT ![s] = NoChunk]
    /\ drain' = [drain EXCEPT ![s] = "read"]
    /\ UNCHANGED <<xpc, xret, child, childData, written, exitCode, osPipe,
                   copier, pending>>

\* if n > 0 { stream("%s", buffer[:n]) }, and err is nil: loop.
DrainStream(s) ==
    /\ drain[s] = "stream"
    /\ sink' = [sink EXCEPT ![s] = StreamCall(s, DataCall(buffer[s]))]
    /\ buffer' = [buffer EXCEPT ![s] = NoChunk]
    /\ drain' = [drain EXCEPT ![s] = "read"]
    /\ UNCHANGED <<xpc, xret, child, childData, written, exitCode, osPipe,
                   copier, pending>>

\* reader.Read(buffer) returns no bytes and an error that is not io.EOF:
\* n is 0, stream is not called, and readerToStream returns the error.
DrainReadError(s) ==
    /\ drain[s] = "read"
    /\ drain' = [drain EXCEPT ![s] = "failed"]
    /\ UNCHANGED <<xpc, xret, buffer, sink, child, childData, written,
                   exitCode, osPipe, copier, pending>>

\* if err := readerToStream(...); err != nil { stream("Failed to stream
\* ... from command: %s\n", err) }, and the goroutine ends.
DrainReportFailure(s) ==
    /\ drain[s] = "failed"
    /\ sink' = [sink EXCEPT ![s] = StreamCall(s, FailedLine)]
    /\ drain' = [drain EXCEPT ![s] = "returned"]
    /\ UNCHANGED <<xpc, xret, buffer, child, childData, written, exitCode,
                   osPipe, copier, pending>>

vars == <<tokVars, entryVars, execVars>>

\* ------------------------------------------------- the specifications
\* Runs of splitArgs on every input, in both modes.
Init ==
    /\ \E in \in StringsOver(Alphabet, MaxLen), fs \in BOOLEAN : splitArgsInit(in, fs)
    /\ EntryIdle
    /\ ExecIdle

Next ==
    \/ NextRune /\ UNCHANGED <<entryVars, execVars>>
    \/ EndOfInput /\ UNCHANGED <<entryVars, execVars>>

Spec == Init /\ [][Next]_vars

\* Runs of newEntrypointDirective on every base.Args.
InitEntry ==
    /\ \E a \in StringsOver(ArgsAlphabet, MaxArgsLen) : EntryInit(a)
    /\ splitArgsIdle
    /\ ExecIdle

NextEntry ==
    \/ EntryReplaceVars /\ UNCHANGED execVars
    \/ EntryParseJSON /\ UNCHANGED execVars
    \/ NextRune /\ UNCHANGED <<entryVars, execVars>>
    \/ EndOfInput /\ UNCHANGED <<entryVars, execVars>>
    \/ EntryShellForm /\ UNCHANGED execVars

SpecEntry == InitEntry /\ [][NextEntry]_vars

\* Runs of ExecCommand on every command.
InitExec ==
    /\ \E data \in [Streams -> StringsOver(Chunks, MaxChunks)], code \in ExitCodes :
           ExecInit(data, code)
    /\ splitArgsIdle
    /\ EntryIdle

NextExec ==
    \/ ExecResolveUser /\ UNCHANGED <<tokVars, entryVars>>
    \/ ExecGoOut /\ UNCHANGED <<tokVars, entryVars>>
    \/ ExecGoErr /\ UNCHANGED <<tokVars, entryVars>>
    \/ ExecStart /\ UNCHANGED <<tokVars, entryVars>>
    \/ ExecWait /\ UNCHANGED <<tokVars, entryVars>>
    \/ ExecExitLine /\ UNCHANGED <<tokVars, entryVars>>
    \/ \E s \in Streams :
        \/ ChildWrite(s) /\ UNCHANGED <<tokVars, entryVars>>
        \/ CopierRead(s) /\ UNCHANGED <<tokVars, entryVars>>
        \/ CopierEOF(s) /\ UNCHANGED <<tokVars, entryVars>>
        \/ DrainRead(s) /\ UNCHANGED <<tokVars, entryVars>>
        \/ DrainStream(s) /\ UNCHANGED <<tokVars, entryVars>>
    \/ ChildExit /\ UNCHANGED <<tokVars, entryVars>>

SpecExec == InitExec /\ [][NextExec]_vars

\* Runs of ExecCommand in which a Read of readerToStream may return an
\* error that is not io.EOF, as the io.Reader it is given allows.  The
\* io.Pipe readers ExecCommand passes return none: nothing closes them.
NextExecReadError ==
    \/ NextExec
    \/ \E s \in Streams :
        \/ DrainReadError(s) /\ UNCHANGED <<tokVars, entryVars>>
        \/ DrainReportFailure(s) /\ UNCHANGED <<tokVars, entryVars>>

SpecExecReadError == InitExec /\ [][NextExecReadError]_vars

\* ============================================================ the claims
forShell == sbase.forShell
Returned == pc = "returned"
Succeeded(tokens) == ret.err = NoError /\ ~ret.nil /\ ret.args = tokens
Failed(e) == ret.err = e /\ ret.nil

FourQuotes == <<DoubleQuote, DoubleQuote, DoubleQuote, DoubleQuote>>
TwoQuotedEmpties == <<DoubleQuote, DoubleQuote, Space, DoubleQuote, DoubleQuote>>
TwoEmptyTokens == << <<>>, <<>> >>

\* C1 as stated: in plain mode the input of four double quotes returns,
\* without error, exactly two empty tokens.
C1_Original ==
    (Returned /\ ~forShell /\ input = FourQuotes) => Succeeded(TwoEmptyTokens)

\* C1 amended: in plain mode the input of four double quotes fails with
\* "missing whitespace after argument" and returns no tokens; two empty
\* quoted regions give two empty tokens when one whitespace separates them.
C1_Amended ==
    (Returned /\ ~forShell) =>
        /\ input = FourQuotes => Failed(ErrMissingWhitespace)
        /\ input = TwoQuotedEmpties => Succeeded(TwoEmptyTokens)

C1_Witness ==
    Returned /\ ~forShell /\ input = FourQuotes /\ state = StateNil /\ i = 2

QuoteInWord == <<Letter, DoubleQuote, Letter>>
QuoteAfterSpace == <<Letter, Space, DoubleQuote, Letter>>

\* C2 as stated: in plain mode the input  a"b  (word character, unclosed
\* double quote, word character) returns the unterminated-argument error
\* and no tokens.
C2_Original ==
    (Returned /\ ~forShell /\ input = QuoteInWord) => Failed(ErrMissingQuote)

\* C2 amended: in plain mode the input  a"b  returns without error the one
\* token  a"b  (a double quote inside an unquoted word is an ordinary
\* character); the unterminated-argument error is returned when the
\* unclosed quote starts a token, as in  a "b.
C2_Amended ==
    (Returned /\ ~forShell) =>
        /\ input = QuoteInWord => Succeeded(<<QuoteInWord>>)
        /\ input = QuoteAfterSpace => Failed(ErrMissingQuote)

C2_Witness ==
    Returned /\ ~forShell /\ input = QuoteInWord /\ state = StateArg

\* The maximal runs of non-whitespace characters of s, in order.
RECURSIVE FieldsFrom(_, _, _)
FieldsFrom(s, cur, acc) ==
    IF s = <<>> THEN (IF cur = <<>> THEN acc ELSE Append(acc, cur))
    ELSE IF Head(s) = Space
         THEN FieldsFrom(Tail(s), <<>>, IF cur = <<>> THEN acc ELSE Append(acc, cur))
         ELSE FieldsFrom(Tail(s), Append(cur, Head(s)), acc)

Fields(s) == FieldsFrom(s, <<>>, <<>>)

\* Unquoted words and operator runs, every operator run with whitespace
\* on both sides, the last character that of a word.
WordsAndSpacedOperators(s) ==
    /\ Len(s) > 0
    /\ \A k \in 1..Len(s) : s[k] = Letter \/ s[k] = Space \/ IsShellChar(s[k])
    /\ s[Len(s)] = Letter
    /\ ~IsShellChar(s[1])
    /\ \A k \in 1..(Len(s) - 1) :
        /\ IsShellChar(s[k]) => (s[k + 1] = Space \/ IsShellChar(s[k + 1]))
        /\ IsShellChar(s[k + 1]) => (s[k] = Space \/ IsShellChar(s[k]))

\* C3: in shell mode, an input of unquoted words and operator runs, each
\* run surrounded by whitespace and the input ending with a word, returns
\* the words and the maximal operator runs as the tokens, in input order.
C3_WordsAndOperatorRuns ==
    (Returned /\ forShell /\ WordsAndSpacedOperators(input)) =>
        Succeeded(Fields(input))

C3_Witness ==
    /\ Returned
    /\ forShell
    /\ input = <<Space, Amp, Amp, Space, Letter>>
    /\ ret.args = << <<Amp, Amp>>, <<Letter>> >>

\* C4 as stated: in shell mode, when the input ends in the ShellOperator
\* state, the returned sequence ends with the pending operator run.
C4_Claim ==
    (Returned /\ forShell /\ state = StateShellCharacters) =>
        /\ ret.err = NoError
        /\ Len(ret.args) > 0
        /\ ret.args[Len(ret.args)] = sbase.currArg

\* C5 as stated: a run with forShell=false never enters the ShellOperator
\* state and never returns "not in a shell".
C5_Claim ==
    (pc # "idle" /\ ~forShell) =>
        (state # StateShellCharacters /\ ret.err # ErrNotInShell)

\* C6 as stated: in the AfterQuote state whitespace leads to Space; in
\* shell mode an operator character leads to ShellOperator; every other
\* character, and in plain mode every non-whitespace character, fails with
\* "missing whitespace after argument".
C6_Claim ==
    [][(pc = "loop" /\ state = StateEndQuote /\ i < Len(input)) =>
        IF IsSpace(input[i + 1]) THEN state' = StateSpace /\ ret'.err = NoError
        ELSE IF forShell /\ IsShellChar(input[i + 1])
             THEN state' = StateShellCharacters /\ ret'.err = NoError
        ELSE pc' = "returned" /\ ret'.err = ErrMissingWhitespace /\ ret'.nil]_vars

\* C7: in both modes, a run whose input ends in the Quoted state returns
\* the missing-quote error and a nil sequence, whatever the escape flag and
\* the tokens accumulated.
C7_QuotedAtEndFails ==
    (Returned /\ state = StateQuote) =>
        (i = Len(input) /\ Failed(ErrMissingQuote))

C7_Witness ==
    /\ Returned
    /\ state = StateQuote
    /\ sbase.escaped
    /\ Len(sbase.args) > 0
    /\ Failed(ErrMissingQuote)

\* The characters of seq from position from, count of them.
Slice(seq, from, count) == [k \in 1..count |-> seq[from + k - 1]]

\* The position before token k in the tokens joined by one separator.
RECURSIVE OffsetOf(_, _)
OffsetOf(tokens, k) ==
    IF k = 1 THEN 0 ELSE OffsetOf(tokens, k - 1) + Len(tokens[k - 1]) + 1

\* joined is the tokens in order with exactly one space between neighbours.
IsSpaceJoined(joined, tokens) ==
    IF tokens = <<>> THEN joined = <<>>
    ELSE /\ Len(joined) = OffsetOf(tokens, Len(tokens)) + Len(tokens[Len(tokens)])
         /\ \A k \in 1..Len(tokens) :
                /\ Slice(joined, OffsetOf(tokens, k) + 1, Len(tokens[k])) = tokens[k]
                /\ k > 1 => joined[OffsetOf(tokens, k)] = Space

\* C8: when the JSON-array primitive accepts base.Args the directive holds
\* exactly that array and splitArgs is never run; when it rejects them and
\* splitArgs(Args, true) succeeds the directive holds exactly "/bin/sh",
\* "-c" and the tokens joined by single spaces.
C8_ExactlyOneForm ==
    /\ (pc = "idle") <=> (ok # "false")
    /\ (epc = "done" /\ ok = "true") =>
        /\ pc = "idle"
        /\ derr = NoDirectiveErr
        /\ directive = EntrypointDirective(parseJSONArray(Args).val)
    /\ (epc = "done" /\ ok = "false" /\ ret.err = NoError) =>
        /\ ~directive.nil
        /\ Len(directive.Entrypoint) = 3
        /\ directive.Entrypoint[1] = BinSh
        /\ directive.Entrypoint[2] = DashC
        /\ IsSpaceJoined(directive.Entrypoint[3], ret.args)

C8_Witness ==
    /\ epc = "done"
    /\ Args = <<Letter, Space, Space, Letter>>
    /\ directive = EntrypointDirective(<<BinSh, DashC, <<Letter, Space, Letter>> >>)

\* C9: when base.Args is no JSON array, newEntrypointDirective returns an
\* error exactly when splitArgs(Args, true) does, the error wraps that of
\* splitArgs, and with an error no directive is returned.
C9_FailsIffTokenizerFails ==
    (epc = "done" /\ ok = "false") =>
        /\ (derr # NoDirectiveErr) <=> (ret.err # NoError)
        /\ (ret.err # NoError) => (directive = NilDirective /\ derr = BaseErr(ret.err))
        /\ (ret.err = NoError) => ~directive.nil

C9_Witness ==
    /\ epc = "done"
    /\ ok = "false"
    /\ Args = <<DoubleQuote, Letter>>
    /\ derr = BaseErr(ErrMissingQuote)
    /\ directive = NilDirective

\* C10: once the child is started or the main flow is at the wait, both
\* drain tasks have been started, and a chunk written by the child is only
\* ever in a pipe whose drain task has been started.
C10_DrainsStartedBeforeWait ==
    /\ (xpc \in {"wait", "exitLine"} \/ child # "none") =>
        \A s \in Streams : drain[s] # "unspawned"
    /\ \A s \in Streams :
        (osPipe[s] # <<>> \/ copier[s] # "none" \/ pending[s] # NoChunk) =>
            drain[s] # "unspawned"

C10_Witness ==
    /\ xpc = "wait"
    /\ child = "running"
    /\ copier["err"] = "write"
    /\ drain["err"] = "read"
    /\ drain["out"] = "stream"

\* C11 as stated: on every exit path both drain tasks terminate: once
\* ExecCommand has returned and nothing can run any more, no drain task
\* that was started is still in its Read.
C11_Claim ==
    (xpc = "done" /\ ~ENABLED NextExec) =>
        \A s \in Streams : drain[s] \in {"unspawned", "returned"}

\* C12: when cmd.Start fails ExecCommand returns the start error at once,
\* the child and the copies never run (there is nothing to wait for), and
\* neither sink is ever called, the drain tasks staying in their Read.
C12_StartFailureCallsNoSink ==
    (xret = ErrCmdStart) =>
        /\ xpc = "done"
        /\ child = "none"
        /\ \A s \in Streams :
            /\ sink[s] = <<>>
            /\ buffer[s] = NoChunk
            /\ copier[s] = "none"
            /\ drain[s] = "read"

C12_Witness ==
    /\ xret = ErrCmdStart
    /\ xpc = "done"
    /\ childData["out"] # <<>>
    /\ \A s \in Streams : drain[s] = "read" /\ sink[s] = <<>>

\* The calls of the sink of s that hold the "Command exited with" line.
ExitedCalls(s) == {k \in 1..Len(sink[s]) : sink[s][k].kind = "Command exited with"}

\* C13: after the wait, the result is exactly one of nil, the wait error
\* and the exit error.  The exit error is returned only for a non-zero
\* exit code, carries it, and comes with exactly one "Command exited with
\* c" call of the stderr sink and none of the stdout sink; nil is returned
\* only for exit code 0 and with no such call; a non-zero exit code gives
\* the exit error unless the wait itself failed.
C13_ExitOutcomes ==
    (xpc = "done" /\ child = "exited") =>
        /\ xret \in {NilErr, ErrCmdWait, ExitError(exitCode)}
        /\ ExitedCalls("out") = {}
        /\ xret = NilErr => (exitCode = 0 /\ ExitedCalls("err") = {})
        /\ xret = ErrCmdWait => ExitedCalls("err") = {}
        /\ xret = ExitError(exitCode) =>
            /\ exitCode # 0
            /\ Cardinality(ExitedCalls("err")) = 1
            /\ \A k \in ExitedCalls("err") : sink["err"][k] = ExitedLine(exitCode)
        /\ (exitCode # 0 /\ xret # ErrCmdWait) => xret = ExitError(exitCode)
        /\ (exitCode = 0 /\ xret # ErrCmdWait) => xret = NilErr

C13_Witness ==
    /\ xpc = "done"
    /\ xret = ExitError(7)
    /\ Len(sink["err"]) = 2
    /\ sink["err"][1].kind = "data"
    /\ sink["err"][2] = ExitedLine(7)

\* The calls of the sink of s that hold the "Failed to stream" line.
FailedCalls(s) == {k \in 1..Len(sink[s]) : sink[s][k] = FailedLine}

\* The part of C14 about the report: a read error is reported by exactly
\* one call of the sink of its stream, made when the drain task ends, and
\* the step in which a Read fails changes neither the other drain task
\* nor the main flow.
C14_ReportedOnceNothingAborted ==
    /\ \A s \in Streams :
        Cardinality(FailedCalls(s)') = IF drain'[s] = "returned" THEN 1 ELSE 0
    /\ \A s \in Streams :
        (drain[s] = "read" /\ drain'[s] = "failed") =>
            /\ \A o \in Streams \ {s} : drain'[o] = drain[o]
            /\ xpc' = xpc
            /\ xret' = xret
            /\ child' = child

\* The wait returns, the child having exited with code 0, after a drain
\* task has hit a read error.
C14_WaitReturnsAfterReadError ==
    /\ xpc = "wait"
    /\ xpc' = "done"
    /\ exitCode = 0
    /\ StreamFailed
    /\ xret' # ErrCmdWait

RECURSIVE SinkBytes(_)
SinkBytes(log) ==
    IF log = <<>> THEN <<>>
    ELSE (IF Head(log).kind = "data" THEN Head(log).bytes ELSE <<>>)
         \o SinkBytes(Tail(log))

\* C15: every data call of a sink holds at least one byte; the bytes
\* passed to the sink of a stream, followed by those on their way to it,
\* are exactly the bytes the child wrote to that stream, in order; when
\* nothing can run any more the sink has been passed all of them; and a
\* child that exits with code 0 gives success (unless the wait failed).
C15_StdoutDelivered ==
    /\ \A s \in Streams :
        /\ \A k \in 1..Len(sink[s]) :
               sink[s][k].kind = "data" => sink[s][k].bytes # <<>>
        /\ SinkBytes(sink[s]) \o buffer[s] \o pending[s] \o osPipe[s] = written[s]
        /\ (child = "exited" /\ ~ENABLED NextExec) =>
               (childData[s] = <<>> /\ SinkBytes(sink[s]) = written[s])
    /\ (xpc = "done" /\ child = "exited" /\ exitCode = 0 /\ xret # ErrCmdWait) =>
           xret = NilErr

C15_Witness ==
    /\ xpc = "done"
    /\ xret = NilErr
    /\ written["out"] = <<"x", "y">>
    /\ sink["out"] = <<DataCall(<<"x", "y">>)>>
    /\ sink["err"] = <<>>
    /\ written["err"] = <<>>

\* The tokens shell mode is to give for words and operators: the maximal
\* runs of word characters and the maximal runs of operator characters.
RECURSIVE ShellTokensFrom(_, _, _)
ShellTokensFrom(s, cur, acc) ==
    LET flushed == IF cur = <<>> THEN acc ELSE Append(acc, cur) IN
    IF s = <<>> THEN flushed
    ELSE IF Head(s) = Space THEN ShellTokensFrom(Tail(s), <<>>, flushed)
    ELSE IF cur # <<>> /\ IsShellChar(cur[1]) # IsShellChar(Head(s))
         THEN ShellTokensFrom(Tail(s), <<Head(s)>>, flushed)
    ELSE ShellTokensFrom(Tail(s), Append(cur, Head(s)), acc)

ShellTokens(s) == ShellTokensFrom(s, <<>>, <<>>)

\* An operator run directly followed by a word character, in an input of
\* word characters, whitespace and operators that ends with a word.
OperatorThenWord(s) ==
    /\ Len(s) > 0
    /\ \A k \in 1..Len(s) : s[k] = Letter \/ s[k] = Space \/ IsShellChar(s[k])
    /\ s[Len(s)] = Letter
    /\ \E k \in 1..(Len(s) - 1) : IsShellChar(s[k]) /\ s[k + 1] = Letter

\* C16 as stated: in shell mode, the character that directly follows an
\* operator run starts a new token, which ends at the next whitespace and
\* is returned also when the input ends after it: the tokens are the words
\* and the operator runs, none dropped, no two words merged.
C16_Claim ==
    (Returned /\ forShell /\ OperatorThenWord(input)) =>
        Succeeded(ShellTokens(input))

\* C17: escaped is true only in the Word and Quoted states, and the
\* character consumed while escaped is true clears it.
C17_EscapeCarriedOneCharacter ==
    [][/\ sbase.escaped => state \in {StateArg, StateQuote}
       /\ sbase'.escaped => state' \in {StateArg, StateQuote}
       /\ (sbase.escaped /\ i' = i + 1) => ~sbase'.escaped]_vars

C17_Witness ==
    /\ Len(input) >= 3
    /\ input[1] = DoubleQuote
    /\ input[2] = Backslash
    /\ i = 3
    /\ state = StateQuote
    /\ ~sbase.escaped
    /\ Len(sbase.currArg) > 0

\* C18: in plain mode, for an input of word characters and whitespace,
\* splitArgs does not fail, and splitArgs of its tokens joined by single
\* spaces does not fail and returns the same tokens.
C18_RejoinRoundTrip ==
    (Returned /\ ~forShell /\ \A k \in 1..Len(input) : input[k] \in {Letter, Space}) =>
        /\ ret.err = NoError
        /\ ~ret.nil
        /\ splitArgs(Join(ret.args, <<Space>>), FALSE) = ret
        /\ ret.args = Fields(input)

C18_Witness ==
    /\ Returned
    /\ ~forShell
    /\ input = <<Space, Letter, Space, Space, Letter>>
    /\ ret.args = << <<Letter>>, <<Letter>> >>

\* C19 as stated: in plain mode, when the Word state pushes its token on
\* whitespace, or the run ends in the Word state, the token is not empty.
C19_Claim ==
    [][(~forShell /\ pc = "loop" /\ state = StateArg
        /\ (state' = StateSpace \/ pc' = "returned")) =>
            sbase.currArg # <<>>]_vars

\* C20 as stated: once ExecCommand has returned no sink is called; when it
\* returns, no drain task holds bytes it has read and not passed on; and
\* the main flow is never at its call of the stderr sink while the stderr
\* drain task is at its own.
C20_Claim ==
    [][/\ xpc = "done" => sink' = sink
       /\ (xpc # "done" /\ xpc' = "done") => \A s \in Streams : buffer'[s] = NoChunk
       /\ ~(xpc = "exitLine" /\ drain["err"] = "stream")]_vars

====
